---- MODULE Spec2Model ----
(***************************************************************************)
(* A state-machine model of the monitoring engine of                       *)
(* src/folder_monitor_widget.py (class FolderMonitorWidget and the module  *)
(* functions get_metadata and log).                                        *)
(*                                                                         *)
(* Threads.  All handlers of the widget (add_folder, remove_folder,        *)
(* check_single_folder, run_check_all, update_snapshots,                   *)
(* update_folder_interval, the QTimer callback check_due_folders and the   *)
(* slots on_operation_started / on_operation_finished) run on the Qt main  *)
(* thread, one at a time.  check_folder and _snapshot_worker run on the    *)
(* threads of a ThreadPoolExecutor.  operation_started is emitted on the   *)
(* main thread, so its slot runs synchronously inside the emitting         *)
(* handler; operation_finished is emitted on a worker thread, so its slot  *)
(* is queued to the main thread's event loop.                              *)
(*                                                                         *)
(* The text of the log file is modelled apart (LogSpec, LogRaceSpec): in   *)
(* the state machine of the widget a step that only writes the log is      *)
(* represented by the position of its task.                                *)
(***************************************************************************)
EXTENDS Integers, Sequences, FiniteSets, Bags, TLC

VARIABLES
    folder_intervals,   \* self.folder_intervals : folder -> seconds
    key_order,          \* insertion order of the keys of self.folder_intervals
    last_check_times,   \* self.last_check_times : folder -> time
    snapshots,          \* self.snapshots : folder -> (path -> value)
    folder_statuses,    \* self.folder_statuses : folder -> "ok" | "changed"
    active_operations,  \* self.active_operations : set of folders
    intervalsFile,      \* folders.json
    lastCheckFile,      \* last_check.json
    snapshotsFile,      \* snapshots.json
    queue,              \* the executor's work queue (FIFO) of submitted tasks
    running,            \* bag of the tasks the executor's threads are running
    pendingFinished,    \* queued operation_finished signals : folder -> count
    budget,             \* number of tasks that may still be submitted (model bound)
    main,               \* the handler the main thread is inside, or idle
    now,                \* time.time()
    fs,                 \* the file system : folder -> index into Contents(folder)
    hung,               \* folders whose directory walk never returns
    touched,            \* watched folders whose files changed since their add
    dPrev, dCur, dOut, dPc, \* inputs and result of a stand-alone diff
    iText, iAdd, iUpd, iPc, \* an interval text and what the add path and the
                            \* update path make of it
    logFile,                \* log.txt : sequence of lines
    logThreads,             \* the threads that write the log : position and locals
    logCount,               \* number of log records begun (history)
    disk,                   \* state file -> "ok", or how writing it fails
    statFails               \* file paths whose os.stat raises

storeVars == <<folder_intervals, key_order, last_check_times, snapshots,
               folder_statuses, active_operations>>
fileVars  == <<intervalsFile, lastCheckFile, snapshotsFile>>
poolVars  == <<queue, running, pendingFinished>>
envVars   == <<now, fs, hung, touched>>
diffVars  == <<dPrev, dCur, dOut, dPc>>
intervalVars == <<iText, iAdd, iUpd, iPc>>
logVars   == <<logFile, logThreads, logCount>>
faultVars == <<disk, statFails>>
\* What no handler and no task of the widget writes: the variables of the
\* stand-alone specifications and the faults of the disk.
otherVars == <<diffVars, intervalVars, logVars, faultVars>>
vars      == <<storeVars, fileVars, poolVars, budget, main, envVars, otherVars>>

-----------------------------------------------------------------------------
(* Bounds of the model *)

\* The clock runs from 1 to MaxTime.
MaxTime == 2
\* At most MaxTasks tasks are submitted to the executor in a run of Spec,
\* at most MaxPoolTasks in a run of PoolSpec.
MaxTasks == 2
MaxPoolTasks == 3
\* The stand-alone diff is run on snapshots over MaxDiffPaths paths.
MaxDiffPaths == 2
\* The interval parsers are run on every text of at most MaxTextLen
\* characters, and on the examples.
MaxTextLen == 3
\* At most MaxLogRecords records are written to the log.
MaxLogRecords == 3

\* ThreadPoolExecutor() is built without max_workers, so the pool has a
\* finite default number of threads (min(32, cpu_count + 4)); the model
\* scales that number to 2.
MaxWorkers == 2

-----------------------------------------------------------------------------
(* Partial maps (Python dicts) *)

EmptyMap == <<>>

Has(m, k) == k \in DOMAIN m

\* m.get(k, d)
Get(m, k, d) == IF k \in DOMAIN m THEN m[k] ELSE d

\* m[k] = v
Put(m, k, v) == [x \in (DOMAIN m) \cup {k} |-> IF x = k THEN v ELSE m[x]]

\* m.pop(k, None)
Pop(m, k) == [x \in (DOMAIN m) \ {k} |-> m[x]]

\* The key order of a dict after m[k] = v: a new key goes last.
OrderPut(order, k) ==
    IF \E i \in 1..Len(order) : order[i] = k THEN order ELSE Append(order, k)

\* The key order of a dict after m.pop(k, None).
OrderPop(order, k) == SelectSeq(order, LAMBDA x : x # k)

RECURSIVE SetToSeq(_)
\* The elements of a finite set in one fixed order.
SetToSeq(S) ==
    IF S = {} THEN <<>>
    ELSE LET x == CHOOSE y \in S : \A z \in S : y <= z
         IN  <<x>> \o SetToSeq(S \ {x})

-----------------------------------------------------------------------------
(* The file system *)

Folders == {"/a", "/b"}

\* What the user may type into the folder field.
PathInputs == Folders \cup {" /a", "/f", ""}

\* folder.strip() followed by str(Path(folder).resolve())
Resolve(p) == IF p = " /a" THEN "/a" ELSE p

\* Path.is_dir(): "/f" is a regular file.
IsDir(p) == p \in Folders

\* The file of a folder that gets rewritten; file paths are numbered:
\* path 1 is /a/x, path 2 is /b/x.
FileOf(F) == IF F = "/a" THEN 1 ELSE 2

\* The files under a folder: path 3 is /a/y, path 4 is /b/y.
FilesOf(F) == {FileOf(F), FileOf(F) + 2}

\* A value as get_metadata builds it: the tuple (st_mtime, st_size).
Tuple(m, s) == <<"tuple", m, s>>

\* The contents a folder goes through: its files are written, then the
\* file FileOf(F) is rewritten.
Contents(F) ==
    << [p \in FilesOf(F) |-> Tuple(1, 1)],
       [p \in FilesOf(F) |-> IF p = FileOf(F) THEN Tuple(2, 1) ELSE Tuple(1, 1)] >>

\* The folders that lie on a network mount, which can become unreachable.
MountFolders == {"/a"}

\* A scan that stops at the first file whose stat raises.
RECURSIVE WalkAbort(_, _)
WalkAbort(files, listing) ==
    IF listing = <<>> THEN EmptyMap
    ELSE LET fpath == Head(listing)
         IN  IF fpath \in statFails THEN EmptyMap
             ELSE (fpath :> files[fpath]) @@ WalkAbort(files, Tail(listing))

\* The loop of get_metadata over the files that os.walk lists: a file whose
\* os.stat raises is logged and left out, the loop goes on.
RECURSIVE Walk(_, _)
Walk(files, listing) ==
    IF listing = <<>> THEN EmptyMap
    ELSE LET fpath == Head(listing)
         IN  IF fpath \in statFails THEN Walk(files, Tail(listing))
             ELSE (fpath :> files[fpath]) @@ Walk(files, Tail(listing))

\* get_metadata(folder): every file under the folder with its (mtime, size).
get_metadata(F) ==
    LET files == Contents(F)[fs[F]]
    IN  Walk(files, SetToSeq(DOMAIN files))

-----------------------------------------------------------------------------
(* JSON files *)

\* A file of the state directory: missing, or holding a JSON object.
NoFile == [exists |-> FALSE, data |-> EmptyMap]

\* json.dump writes a tuple as an array.
JsonValue(v) == <<"list", v[2], v[3]>>

\* json.dump of a snapshot (path -> value)
JsonSnapshot(snap) == [p \in DOMAIN snap |-> JsonValue(snap[p])]

\* json.dump of self.snapshots
JsonSnapshots(store) == [F \in DOMAIN store |-> JsonSnapshot(store[F])]

\* load_json: a missing file loads as {}.
load_json(file) == IF file.exists THEN file.data ELSE EmptyMap

\* save_json(path, data): the file holds json.dump(data), which for a map
\* of numbers is the map itself.
save_json(json) == [exists |-> TRUE, data |-> json]

\* The three files of the state directory.
StoreFiles == {"folders", "last_check", "snapshots"}

\* How writing a file fails: open(path, "w") raises and the file stays as it
\* was, or json.dump raises after open has emptied the file.
FaultModes == {"denied", "dump"}

\* A file that open(path, "w") has emptied and json.dump has not completed:
\* json.load raises on it and load_json returns {}.
Truncated == [exists |-> TRUE, data |-> EmptyMap]

\* save_json(path, data) with its except: what the file of name path holds
\* after the call.  An error is logged and not raised.
try_save_json(path, file, json) ==
    IF disk[path] = "ok" THEN save_json(json)
    ELSE IF disk[path] = "denied" THEN file
    ELSE Truncated

-----------------------------------------------------------------------------
(* Interval text *)

Digits == <<"0", "1", "2", "3", "4", "5", "6", "7", "8", "9">>

IsDigit(c) == \E i \in 1..10 : Digits[i] = c

DigitValue(c) == (CHOOSE i \in 1..10 : Digits[i] = c) - 1

IsUnit(c) == c \in {"s", "m", "h", "d"}

\* unit_multipliers
unit_multipliers(u) ==
    CASE u = "s" -> 1 [] u = "m" -> 60 [] u = "h" -> 3600 [] u = "d" -> 86400

\* str.lower() on the characters the model types
Lower(s) ==
    [i \in 1..Len(s) |->
        CASE s[i] = "S" -> "s" [] s[i] = "M" -> "m"
          [] s[i] = "H" -> "h" [] s[i] = "D" -> "d" [] OTHER -> s[i]]

RECURSIVE Strip(_)
\* str.strip()
Strip(s) ==
    IF s = <<>> THEN s
    ELSE IF Head(s) = " " THEN Strip(Tail(s))
    ELSE IF s[Len(s)] = " " THEN Strip(SubSeq(s, 1, Len(s) - 1))
    ELSE s

RECURSIVE FullMatchFrom(_, _, _)
\* re.fullmatch(r'(\d+[smhd])+', s) from position i; st is what was read
\* last: "unit" (or nothing yet, when i = 1) or "digit".
FullMatchFrom(s, i, st) ==
    IF i > Len(s) THEN st = "unit" /\ Len(s) > 0
    ELSE IF IsDigit(s[i]) THEN FullMatchFrom(s, i + 1, "digit")
    ELSE IF IsUnit(s[i]) /\ st = "digit" THEN FullMatchFrom(s, i + 1, "unit")
    ELSE FALSE

\* re.match in place of re.fullmatch: a prefix of s matches.
MatchPrefix(s) == \E n \in 1..Len(s) : FullMatchFrom(SubSeq(s, 1, n), 1, "unit")

FullMatch(s) == FullMatchFrom(s, 1, "unit")

RECURSIVE FindAllFrom(_, _, _, _)
\* re.findall(r'(\d+)([smhd])', s): the values number * multiplier of the
\* matches, left to right.  num is the number read since the digit run
\* began, inrun says that a digit run is being read.
FindAllFrom(s, i, num, inrun) ==
    IF i > Len(s) THEN <<>>
    ELSE IF IsDigit(s[i])
         THEN FindAllFrom(s, i + 1,
                          (IF inrun THEN num * 10 ELSE 0) + DigitValue(s[i]),
                          TRUE)
    ELSE IF IsUnit(s[i]) /\ inrun
         THEN <<num * unit_multipliers(s[i])>> \o FindAllFrom(s, i + 1, 0, FALSE)
    ELSE FindAllFrom(s, i + 1, 0, FALSE)

RECURSIVE SumSeq(_)
SumSeq(q) == IF q = <<>> THEN 0 ELSE Head(q) + SumSeq(Tail(q))

\* parse_multiunit_interval(s)
parse_multiunit_interval(s) == SumSeq(FindAllFrom(s, 1, 0, FALSE))

\* The early return of add_folder and the None of get_interval: no interval.
Rejected == -1

\* add_folder, from the text of the interval field to the interval it stores
add_interval(text) ==
    LET interval_str == Lower(Strip(text))
    IN  IF FullMatch(interval_str)
        THEN parse_multiunit_interval(interval_str)
        ELSE Rejected

\* IntervalInputDialog.validate_input: pattern ^(\d+[smhd])+$ under fullmatch
validate_input(text) == FullMatch(Lower(Strip(text)))

\* IntervalInputDialog.get_interval, when the dialog is valid
get_interval(text) == Lower(Strip(text))

\* parse_interval_input(input_str); no match raises ValueError
parse_interval_input(input_str) ==
    LET matches == FindAllFrom(Lower(Strip(input_str)), 1, 0, FALSE)
    IN  IF matches = <<>> THEN Rejected ELSE SumSeq(matches)

\* update_folder_interval, from the text of the dialog to the interval it
\* stores
update_interval(text) ==
    IF validate_input(text)
    THEN parse_interval_input(get_interval(text))
    ELSE Rejected

\* What the user may type into an interval field.
IntervalTexts ==
    { <<"1", "s">>, <<"2", "s">>, <<" ", "1", "S", " ">>,
      <<"1", "x">>, <<"1", "s", "x">>, <<>> }

\* The texts re.fullmatch(r'(\d+[smhd])+', text.strip().lower()) accepts.
AcceptedTexts == {text \in IntervalTexts : FullMatch(Lower(Strip(text)))}

\* parse_multiunit_interval(text.strip().lower()) of each accepted text
IntervalOf ==
    [text \in AcceptedTexts |-> parse_multiunit_interval(Lower(Strip(text)))]

-----------------------------------------------------------------------------
(* The diff of check_folder *)

RECURSIVE DiffCurrent(_, _, _)
\* The loop over current.items(): NEW and MODIFIED records, in the order
\* todo of the paths of current.
DiffCurrent(previous, current, todo) ==
    IF todo = <<>> THEN <<>>
    ELSE LET path == Head(todo)
             rec  == IF path \notin DOMAIN previous THEN << <<"NEW", path>> >>
                     ELSE IF previous[path] # current[path]
                          THEN << <<"MODIFIED", path>> >>
                     ELSE <<>>
         IN  rec \o DiffCurrent(previous, current, Tail(todo))

\* The loop over set(previous.keys()) - set(current.keys()).
DiffDeleted(previous, current) ==
    LET deleted == SetToSeq((DOMAIN previous) \ (DOMAIN current))
    IN  [i \in 1..Len(deleted) |-> <<"DELETED", deleted[i]>>]

\* A diff that forgets the loop over the deleted paths.
DiffNoDeleted(previous, current) ==
    DiffCurrent(previous, current, SetToSeq(DOMAIN current))

\* changed_files of check_folder
Diff(previous, current) ==
    DiffCurrent(previous, current, SetToSeq(DOMAIN current))
        \o DiffDeleted(previous, current)

-----------------------------------------------------------------------------
(* Tasks of the executor *)

\* A submitted task.  first is history, not program state: it says that no
\* check of the folder was submitted since the folder was added.
Task(kind, F, first) == [kind |-> kind, folder |-> F, first |-> first]

\* A task that a pool thread is running: pc is the step it is about to
\* take, cur the result of its scan, changes its changed_files.
RunningTask(t, pc, cur) ==
    [kind |-> t.kind, folder |-> t.folder, first |-> t.first,
     pc |-> pc, cur |-> cur, changes |-> <<>>]

Bag1(t) == SetToBag({t})

InFlight == Len(queue) + BagCardinality(running)

\* The bound of the model on submissions: n more tasks may be submitted.
Room(n) == n <= budget

TasksOf(F) ==
    Cardinality({i \in 1..Len(queue) : queue[i].folder = F})
    + BagCardinality([t \in {r \in DOMAIN running : r.folder = F} |-> running[t]])

\* History only: a task that was the first check of F is no longer the first
\* check once F is added again.
NotFirst(t, F) == IF t.folder = F THEN [t EXCEPT !.first = FALSE] ELSE t

RECURSIVE BagOfSeq(_)
BagOfSeq(q) == IF q = <<>> THEN EmptyBag ELSE Bag1(Head(q)) (+) BagOfSeq(Tail(q))

RECURSIVE BagToSeq(_)
BagToSeq(B) ==
    IF DOMAIN B = {} THEN <<>>
    ELSE LET t == CHOOSE x \in DOMAIN B : TRUE
         IN  <<t>> \o BagToSeq(B (-) Bag1(t))

ForgetFirst(B, F) ==
    LET q == BagToSeq(B)
    IN  BagOfSeq([i \in 1..Len(q) |-> NotFirst(q[i], F)])

-----------------------------------------------------------------------------
(* The main thread *)

Idle == [op |-> "idle", folder |-> "", todo |-> <<>>, now |-> 0, updated |-> FALSE]

Watched == DOMAIN folder_intervals

\* signals.operation_started.emit(folder): on_operation_started runs at once.
on_operation_started(active, F) == active \cup {F}

\* add_folder without its test for a folder that is already monitored.
AddRejectedNoDuplicate(p, text) ==
    \/ p = ""
    \/ text \notin AcceptedTexts
    \/ ~IsDir(Resolve(p))

\* add_folder's early returns
AddRejected(p, text) ==
    \/ p = ""
    \/ text \notin AcceptedTexts
    \/ ~IsDir(Resolve(p))
    \/ Resolve(p) \in DOMAIN folder_intervals

\* add_folder with the folder field holding p and the interval field text
AddFolder(p, text) ==
    /\ main = Idle
    /\ IF AddRejected(p, text)
       THEN UNCHANGED vars
       ELSE LET F == Resolve(p)
                interval == IntervalOf[text]
            IN  /\ Room(1)
                /\ budget' = budget - 1
                /\ folder_intervals' = Put(folder_intervals, F, interval)
                /\ key_order' = OrderPut(key_order, F)
                /\ last_check_times' = Put(last_check_times, F, 0)
                /\ active_operations' = on_operation_started(active_operations, F)
                /\ queue' = Append([i \in 1..Len(queue) |-> NotFirst(queue[i], F)],
                                   Task("snapshot", F, FALSE))
                /\ running' = ForgetFirst(running, F)
                /\ intervalsFile' = try_save_json("folders", intervalsFile, folder_intervals')
                /\ touched' = touched \ {F}
                /\ UNCHANGED <<snapshots, folder_statuses, lastCheckFile,
                               snapshotsFile, pendingFinished, main, now, fs,
                               hung, otherVars>>

\* update_folder_interval(folder) with the dialog holding text
UpdateInterval(F, text) ==
    /\ main = Idle
    /\ F \in Watched
    /\ text \in AcceptedTexts
    /\ folder_intervals' = Put(folder_intervals, F, IntervalOf[text])
    /\ intervalsFile' = try_save_json("folders", intervalsFile, folder_intervals')
    /\ UNCHANGED <<budget, key_order, last_check_times, snapshots, folder_statuses,
                   active_operations, lastCheckFile, snapshotsFile, poolVars,
                   main, envVars, otherVars>>

\* remove_folder with del in place of pop(folder, None): a folder that is
\* not monitored raises KeyError.
RemoveBeginStrict(F) ==
    /\ main = Idle
    /\ F \in Watched
    /\ folder_intervals' = Pop(folder_intervals, F)
    /\ key_order' = OrderPop(key_order, F)
    /\ snapshots' = Pop(snapshots, F)
    /\ last_check_times' = Pop(last_check_times, F)
    /\ folder_statuses' = Pop(folder_statuses, F)
    /\ active_operations' = active_operations \ {F}
    /\ touched' = touched \ {F}
    /\ main' = [Idle EXCEPT !.op = "remove", !.folder = F]
    /\ UNCHANGED <<budget, fileVars, poolVars, now, fs, hung, otherVars>>

\* remove_folder(folder), after the confirmation: the five pops
RemoveBegin(F) ==
    /\ main = Idle
    /\ folder_intervals' = Pop(folder_intervals, F)
    /\ key_order' = OrderPop(key_order, F)
    /\ snapshots' = Pop(snapshots, F)
    /\ last_check_times' = Pop(last_check_times, F)
    /\ folder_statuses' = Pop(folder_statuses, F)
    /\ active_operations' = active_operations \ {F}
    /\ touched' = touched \ {F}
    /\ main' = [Idle EXCEPT !.op = "remove", !.folder = F]
    /\ UNCHANGED <<budget, fileVars, poolVars, now, fs, hung, otherVars>>

\* remove_folder(folder): the three saves
RemoveSave ==
    /\ main.op = "remove"
    /\ intervalsFile' = try_save_json("folders", intervalsFile, folder_intervals)
    /\ snapshotsFile' = try_save_json("snapshots", snapshotsFile, JsonSnapshots(snapshots))
    /\ lastCheckFile' = try_save_json("last_check", lastCheckFile, last_check_times)
    /\ main' = Idle
    /\ UNCHANGED <<budget, storeVars, poolVars, envVars, otherVars>>

\* check_single_folder that submits without stamping last_check_times.
CheckSingleNoStamp(F) ==
    /\ main = Idle
    /\ F \in Watched
    /\ Room(1)
    /\ budget' = budget - 1
    /\ active_operations' = on_operation_started(active_operations, F)
    /\ queue' = Append(queue, Task("check", F, Get(last_check_times, F, 0) = 0))
    /\ UNCHANGED <<folder_intervals, key_order, last_check_times, snapshots,
                   folder_statuses, fileVars, running, pendingFinished,
                   main, envVars, otherVars>>

\* check_single_folder(folder)
CheckSingle(F) ==
    /\ main = Idle
    /\ F \in Watched
    /\ Room(1)
    /\ budget' = budget - 1
    /\ last_check_times' = Put(last_check_times, F, now)
    /\ lastCheckFile' = try_save_json("last_check", lastCheckFile, last_check_times')
    /\ active_operations' = on_operation_started(active_operations, F)
    /\ queue' = Append(queue, Task("check", F, Get(last_check_times, F, 0) = 0))
    /\ UNCHANGED <<folder_intervals, key_order, snapshots, folder_statuses,
                   intervalsFile, snapshotsFile, running, pendingFinished,
                   main, envVars, otherVars>>

RECURSIVE CheckTasks(_, _)
\* The check tasks run_check_all submits, in the order of the dict.
CheckTasks(order, last) ==
    IF order = <<>> THEN <<>>
    ELSE <<Task("check", Head(order), Get(last, Head(order), 0) = 0)>>
             \o CheckTasks(Tail(order), last)

\* run_check_all
RunCheckAll ==
    /\ main = Idle
    /\ Room(Len(key_order))
    /\ budget' = budget - Len(key_order)
    /\ last_check_times' =
           [F \in (DOMAIN last_check_times) \cup Watched |->
               IF F \in Watched THEN now ELSE last_check_times[F]]
    /\ active_operations' = active_operations \cup Watched
    /\ queue' = queue \o CheckTasks(key_order, last_check_times)
    /\ lastCheckFile' = try_save_json("last_check", lastCheckFile, last_check_times')
    /\ UNCHANGED <<folder_intervals, key_order, snapshots, folder_statuses,
                   intervalsFile, snapshotsFile, running, pendingFinished,
                   main, envVars, otherVars>>

\* update_snapshots: take_snapshot for every folder of the dict
UpdateSnapshots ==
    /\ main = Idle
    /\ Watched # {}
    /\ Room(Len(key_order))
    /\ budget' = budget - Len(key_order)
    /\ active_operations' = active_operations \cup Watched
    /\ queue' = queue \o [i \in 1..Len(key_order) |->
                             Task("snapshot", key_order[i], FALSE)]
    /\ UNCHANGED <<folder_intervals, key_order, last_check_times, snapshots,
                   folder_statuses, fileVars, running, pendingFinished, main,
                   envVars, otherVars>>

\* A test that also fires when exactly one interval has passed.
IsDueNonStrict(t, last_time, interval) == t - last_time >= interval

\* The test of check_due_folders
IsDue(t, last_time, interval) == t - last_time > interval

DueCount(t) ==
    Cardinality({F \in Watched :
                    IsDue(t, Get(last_check_times, F, 0), folder_intervals[F])})

\* A timer whose callback does not wait for the event loop to be free.
TickBeginAnyTime ==
    /\ main.op # "remove"
    /\ Room(DueCount(now))
    /\ main' = [Idle EXCEPT !.op = "tick", !.todo = key_order, !.now = now]
    /\ UNCHANGED <<budget, storeVars, fileVars, poolVars, envVars, otherVars>>

\* The timer fires: check_due_folders reads the clock and starts its loop.
TickBegin ==
    /\ main = Idle
    /\ Room(DueCount(now))
    /\ main' = [Idle EXCEPT !.op = "tick", !.todo = key_order, !.now = now]
    /\ UNCHANGED <<budget, storeVars, fileVars, poolVars, envVars, otherVars>>

\* One pass of the loop of check_due_folders
TickFolder ==
    /\ main.op = "tick"
    /\ main.todo # <<>>
    /\ LET F == Head(main.todo)
           last_time == Get(last_check_times, F, 0)
       IN  IF IsDue(main.now, last_time, folder_intervals[F])
           THEN /\ last_check_times' = Put(last_check_times, F, main.now)
                /\ active_operations' = on_operation_started(active_operations, F)
                /\ queue' = Append(queue, Task("check", F, last_time = 0))
                /\ budget' = budget - 1
                /\ main' = [main EXCEPT !.todo = Tail(@), !.updated = TRUE]
           ELSE /\ main' = [main EXCEPT !.todo = Tail(@)]
                /\ UNCHANGED <<last_check_times, active_operations, queue,
                               budget>>
    /\ UNCHANGED <<folder_intervals, key_order, snapshots, folder_statuses,
                   fileVars, running, pendingFinished, envVars, otherVars>>

\* The end of check_due_folders: the save, if a folder was due
TickEnd ==
    /\ main.op = "tick"
    /\ main.todo = <<>>
    /\ lastCheckFile' = IF main.updated THEN try_save_json("last_check", lastCheckFile, last_check_times)
                        ELSE lastCheckFile
    /\ main' = Idle
    /\ UNCHANGED <<budget, storeVars, intervalsFile, snapshotsFile, poolVars, envVars,
                   otherVars>>

\* The event loop delivers a queued operation_finished to on_operation_finished.
DeliverFinished(F) ==
    /\ main = Idle
    /\ pendingFinished[F] > 0
    /\ pendingFinished' = [pendingFinished EXCEPT ![F] = @ - 1]
    /\ active_operations' = active_operations \ {F}
    /\ UNCHANGED <<budget, folder_intervals, key_order, last_check_times, snapshots,
                   folder_statuses, fileVars, queue, running, main, envVars,
                   otherVars>>

\* The window is closed when no task is queued or running, and the program
\* is started again: __init__ loads the three stores from their files (the
\* file of the intervals holds the dict of the intervals whenever no handler
\* is running, so the order of its keys is key_order), the statuses and the
\* active operations start empty, undelivered signals are gone.
Restart ==
    /\ main = Idle
    /\ InFlight = 0
    /\ snapshots' = load_json(snapshotsFile)
    /\ folder_intervals' = load_json(intervalsFile)
    /\ last_check_times' = load_json(lastCheckFile)
    /\ folder_statuses' = EmptyMap
    /\ active_operations' = {}
    /\ pendingFinished' = [F \in Folders |-> 0]
    /\ UNCHANGED <<budget, key_order, fileVars, queue, running, main, envVars,
                   otherVars>>

-----------------------------------------------------------------------------
(* The pool threads *)

\* A free thread takes the oldest task of the queue and walks the folder.
\* The walk of a hung folder never returns.
StartTask ==
    /\ queue # <<>>
    /\ BagCardinality(running) < MaxWorkers
    /\ LET t == Head(queue)
           pc == IF t.folder \in hung THEN "scan"
                 ELSE IF t.kind = "check" THEN "diff" ELSE "set"
           cur == IF t.folder \in hung THEN EmptyMap ELSE get_metadata(t.folder)
       IN  running' = running (+) Bag1(RunningTask(t, pc, cur))
    /\ queue' = Tail(queue)
    /\ UNCHANGED <<budget, storeVars, fileVars, pendingFinished, main, envVars, otherVars>>

\* signals.operation_finished.emit(folder) in the finally of a task
EmitFinished(t) ==
    /\ running' = running (-) Bag1(t)
    /\ pendingFinished' = [pendingFinished EXCEPT ![t.folder] = @ + 1]

\* A check that takes its scan as the new baseline.
CheckDiffStoring(t) ==
    /\ t.kind = "check" /\ t.pc = "diff"
    /\ LET previous == Get(snapshots, t.folder, EmptyMap)
           changed_files == Diff(previous, t.cur)
       IN  /\ folder_statuses' =
                 Put(folder_statuses, t.folder,
                     IF changed_files # <<>> THEN "changed" ELSE "ok")
           /\ running' = (running (-) Bag1(t))
                  (+) Bag1([t EXCEPT !.pc = "log", !.changes = changed_files])
    /\ snapshots' = Put(snapshots, t.folder, t.cur)
    /\ UNCHANGED <<budget, folder_intervals, key_order, last_check_times,
                   active_operations, fileVars, queue, pendingFinished, main,
                   envVars, otherVars>>

\* check_folder: read the stored snapshot, diff, set the status
CheckDiff(t) ==
    /\ t.kind = "check" /\ t.pc = "diff"
    /\ LET previous == Get(snapshots, t.folder, EmptyMap)
           changed_files == Diff(previous, t.cur)
       IN  /\ folder_statuses' =
                 Put(folder_statuses, t.folder,
                     IF changed_files # <<>> THEN "changed" ELSE "ok")
           /\ running' = (running (-) Bag1(t))
                  (+) Bag1([t EXCEPT !.pc = "log", !.changes = changed_files])
    /\ UNCHANGED <<budget, folder_intervals, key_order, last_check_times, snapshots,
                   active_operations, fileVars, queue, pendingFinished, main,
                   envVars, otherVars>>

\* snapshots_lock is held by the snapshot task that is between its store
\* and its save.
LockHeld == \E r \in DOMAIN running : r.pc = "save"

\* A snapshot task that also marks its folder as unchanged.
SnapSetOk(t) ==
    /\ t.kind = "snapshot" /\ t.pc = "set"
    /\ ~LockHeld
    /\ snapshots' = Put(snapshots, t.folder, t.cur)
    /\ folder_statuses' = Put(folder_statuses, t.folder, "ok")
    /\ running' = (running (-) Bag1(t)) (+) Bag1([t EXCEPT !.pc = "save"])
    /\ UNCHANGED <<budget, folder_intervals, key_order, last_check_times,
                   active_operations, fileVars, queue,
                   pendingFinished, main, envVars, otherVars>>

\* _snapshot_worker: lockForWrite and self.snapshots[folder] = metadata
SnapSet(t) ==
    /\ t.kind = "snapshot" /\ t.pc = "set"
    /\ ~LockHeld
    /\ snapshots' = Put(snapshots, t.folder, t.cur)
    /\ running' = (running (-) Bag1(t)) (+) Bag1([t EXCEPT !.pc = "save"])
    /\ UNCHANGED <<budget, folder_intervals, key_order, last_check_times,
                   folder_statuses, active_operations, fileVars, queue,
                   pendingFinished, main, envVars, otherVars>>

\* A snapshot task that saves the snapshot of its own folder only.
SnapSaveOwn(t) ==
    /\ t.kind = "snapshot" /\ t.pc = "save"
    /\ snapshotsFile' =
          save_json(JsonSnapshots([F \in {t.folder} \cap DOMAIN snapshots |->
                                      snapshots[F]]))
    /\ running' = (running (-) Bag1(t)) (+) Bag1([t EXCEPT !.pc = "log"])
    /\ UNCHANGED <<budget, storeVars, intervalsFile, lastCheckFile, queue,
                   pendingFinished, main, envVars, otherVars>>

\* A snapshot task that takes its entry back when the save fails.
SnapSaveRollback(t) ==
    /\ t.kind = "snapshot" /\ t.pc = "save"
    /\ snapshotsFile' = try_save_json("snapshots", snapshotsFile, JsonSnapshots(snapshots))
    /\ snapshots' = IF disk["snapshots"] = "ok" THEN snapshots
                    ELSE Pop(snapshots, t.folder)
    /\ running' = (running (-) Bag1(t)) (+) Bag1([t EXCEPT !.pc = "log"])
    /\ UNCHANGED <<budget, folder_intervals, key_order, last_check_times,
                   folder_statuses, active_operations, intervalsFile,
                   lastCheckFile, queue, pendingFinished, main, envVars, otherVars>>

\* _snapshot_worker: save_json(SNAPSHOT_FILE, self.snapshots) and unlock
SnapSave(t) ==
    /\ t.kind = "snapshot" /\ t.pc = "save"
    /\ snapshotsFile' = try_save_json("snapshots", snapshotsFile, JsonSnapshots(snapshots))
    /\ running' = (running (-) Bag1(t)) (+) Bag1([t EXCEPT !.pc = "log"])
    /\ UNCHANGED <<budget, storeVars, intervalsFile, lastCheckFile, queue,
                   pendingFinished, main, envVars, otherVars>>

\* The task writes its log entry and ends: the finally emits.
TaskFinish(t) ==
    /\ t.pc = "log"
    /\ EmitFinished(t)
    /\ UNCHANGED <<budget, storeVars, fileVars, queue, main, envVars, otherVars>>

\* A task whose emit is not in a finally: an error skips it.
TaskRaiseNoEmit(t) ==
    /\ t.pc \in {"diff", "set", "log"}
    /\ running' = running (-) Bag1(t)
    /\ UNCHANGED <<budget, storeVars, fileVars, queue, pendingFinished, main,
                   envVars, otherVars>>

\* The task raises, in its scan (before it used the result) or in log():
\* the finally emits.
TaskRaise(t) ==
    /\ t.pc \in {"diff", "set", "log"}
    /\ EmitFinished(t)
    /\ UNCHANGED <<budget, storeVars, fileVars, queue, main, envVars, otherVars>>

-----------------------------------------------------------------------------
(* The environment *)

AdvanceTime ==
    /\ now < MaxTime
    /\ now' = now + 1
    /\ UNCHANGED <<budget, storeVars, fileVars, poolVars, main, fs, hung, touched, otherVars>>

\* The files of folder F change to the folder's next content.
Touch(F) ==
    /\ fs[F] < Len(Contents(F))
    /\ fs' = [fs EXCEPT ![F] = @ + 1]
    /\ touched' = IF F \in Watched THEN touched \cup {F} ELSE touched
    /\ UNCHANGED <<budget, storeVars, fileVars, poolVars, main, now, hung, otherVars>>

\* The mount of folder F becomes unreachable, for good.
MountLost(F) ==
    /\ F \notin hung
    /\ hung' = hung \cup {F}
    /\ UNCHANGED <<budget, storeVars, fileVars, poolVars, main, now, fs, touched, otherVars>>

-----------------------------------------------------------------------------
(* The specification *)

\* FolderMonitorWidget.__init__ with an empty state directory: load_json
\* finds no file, no task was submitted, no handler is running.
Constructed ==
    /\ folder_intervals = EmptyMap
    /\ key_order = <<>>
    /\ last_check_times = EmptyMap
    /\ snapshots = EmptyMap
    /\ folder_statuses = EmptyMap
    /\ active_operations = {}
    /\ intervalsFile = NoFile
    /\ lastCheckFile = NoFile
    /\ snapshotsFile = NoFile
    /\ queue = <<>>
    /\ running = EmptyBag
    /\ pendingFinished = [F \in Folders |-> 0]
    /\ main = Idle

EnvInit ==
    /\ now = 1
    /\ fs = [F \in Folders |-> 1]
    /\ hung = {}
    /\ touched = {}
    /\ disk = [f \in StoreFiles |-> "ok"]
    /\ statFails = {}

DiffOff == dPrev = EmptyMap /\ dCur = EmptyMap /\ dOut = <<>> /\ dPc = "off"

IntervalOff == iText = <<>> /\ iAdd = "none" /\ iUpd = "none" /\ iPc = "off"

LogOff == logFile = <<>> /\ logThreads = <<>> /\ logCount = 0

Init == Constructed /\ EnvInit /\ DiffOff /\ IntervalOff /\ LogOff /\ budget = MaxTasks

\* One watched folder, every operation of the widget (remove_folder also for
\* the path /b, which is never monitored), the pool, the clock and the files.
OneFolder == {"/a"}

MainNext ==
    \/ \E p \in PathInputs \ {"/b"}, text \in IntervalTexts : AddFolder(p, text)
    \/ \E F \in OneFolder, text \in IntervalTexts : UpdateInterval(F, text)
    \/ \E F \in Folders : RemoveBegin(F)
    \/ RemoveSave
    \/ \E F \in OneFolder : CheckSingle(F)
    \/ RunCheckAll
    \/ UpdateSnapshots
    \/ TickBegin
    \/ TickFolder
    \/ TickEnd
    \/ \E F \in OneFolder : DeliverFinished(F)
    \/ Restart

WorkerNext ==
    \/ StartTask
    \/ \E t \in DOMAIN running : CheckDiff(t)
    \/ \E t \in DOMAIN running : SnapSet(t)
    \/ \E t \in DOMAIN running : SnapSave(t)
    \/ \E t \in DOMAIN running : TaskFinish(t)
    \/ \E t \in DOMAIN running : TaskRaise(t)

EnvNext ==
    \/ AdvanceTime
    \/ \E F \in OneFolder : Touch(F)

Next == MainNext \/ WorkerNext \/ EnvNext

Spec == Init /\ [][Next]_vars

\* Two watched folders, one of them on a mount that can hang: the
\* operations that submit tasks, the timer, the pool and the clock.
PoolInit ==
    Constructed /\ EnvInit /\ DiffOff /\ IntervalOff /\ LogOff /\ budget = MaxPoolTasks

PoolNext ==
    \/ AddFolder("/a", <<"1", "s">>)
    \/ AddFolder("/b", <<"2", "s">>)
    \/ \E F \in Folders : CheckSingle(F)
    \/ RunCheckAll
    \/ UpdateSnapshots
    \/ TickBegin
    \/ TickFolder
    \/ TickEnd
    \/ \E F \in Folders : DeliverFinished(F)
    \/ StartTask
    \/ \E t \in DOMAIN running : CheckDiff(t)
    \/ \E t \in DOMAIN running : SnapSet(t)
    \/ \E t \in DOMAIN running : SnapSave(t)
    \/ \E t \in DOMAIN running : TaskFinish(t)
    \/ AdvanceTime
    \/ \E F \in MountFolders : MountLost(F)

\* A step of a pool thread.
PoolStep ==
    \/ StartTask
    \/ \E t \in DOMAIN running :
          CheckDiff(t) \/ SnapSet(t) \/ SnapSave(t) \/ TaskFinish(t)

\* The threads of the pool are scheduled fairly: a thread that can take a
\* step takes it.
PoolSpec == PoolInit /\ [][PoolNext]_vars /\ WF_vars(PoolStep)

-----------------------------------------------------------------------------
(* The diff of check_folder, run alone on every pair of snapshots *)

DiffPaths == 1..MaxDiffPaths

\* Values as the scanner builds them.
DiffValues == {Tuple(1, 1), Tuple(2, 1), Tuple(1, 2)}

DiffSnapshots == UNION {[D -> DiffValues] : D \in SUBSET DiffPaths}

DiffInit ==
    /\ Constructed /\ EnvInit /\ IntervalOff /\ LogOff /\ budget = 0
    /\ dPrev \in DiffSnapshots
    /\ dCur \in DiffSnapshots
    /\ dOut = <<>>
    /\ dPc = "start"

DiffRun ==
    /\ dPc = "start"
    /\ dOut' = Diff(dPrev, dCur)
    /\ dPc' = "done"
    /\ UNCHANGED <<storeVars, fileVars, poolVars, budget, main, envVars, dPrev, dCur,
                   intervalVars, logVars, faultVars>>

DiffSpec == DiffInit /\ [][DiffRun]_vars

-----------------------------------------------------------------------------
(* The two interval parsers, run alone on every short text *)

IntervalChars == {"0", "1", "s", "h", "M", "x", " "}

RECURSIVE TextsUpTo(_)
TextsUpTo(n) ==
    IF n = 0 THEN {<<>>}
    ELSE LET shorter == TextsUpTo(n - 1)
         IN  shorter \cup {Append(t, c) : t \in shorter, c \in IntervalChars}

ExampleTexts ==
    { <<"1", "h", "3", "0", "m">>, <<"2", "d">>, <<"4", "5", "m">>,
      <<"3", "0", "s">>, <<"1", "x">>, <<" ", "1", "H", "3", "0", "m", " ">>,
      <<"1", "h", " ", "3", "0", "m">>, <<"1", "s", "x", "2", "m">> }

ParserTexts == TextsUpTo(MaxTextLen) \cup ExampleTexts

IntervalInit ==
    /\ Constructed /\ EnvInit /\ DiffOff /\ LogOff /\ budget = 0
    /\ iText \in ParserTexts
    /\ iAdd = Rejected
    /\ iUpd = Rejected
    /\ iPc = "start"

IntervalRun ==
    /\ iPc = "start"
    /\ iAdd' = add_interval(iText)
    /\ iUpd' = update_interval(iText)
    /\ iPc' = "done"
    /\ UNCHANGED <<storeVars, fileVars, poolVars, budget, main, envVars, diffVars,
                   iText, logVars, faultVars>>

IntervalSpec == IntervalInit /\ [][IntervalRun]_vars

-----------------------------------------------------------------------------
(* Claims *)

Count(out, kind, path) ==
    Cardinality({i \in 1..Len(out) : out[i] = <<kind, path>>})

\* The (mtime, size) of two values differ.
Differs(v, w) == v[2] # w[2] \/ v[3] # w[3]

\* C1: the change list of a check holds exactly one NEW record for each path
\* of current that previous lacks, exactly one MODIFIED record for each path
\* of both whose (mtime, size) differs, exactly one DELETED record for each
\* path of previous that current lacks, and no other record; the diff of a
\* snapshot with itself is empty.  (DiffSpec: every pair of snapshots over
\* DiffPaths whose values are the scanner's tuples.)
C1_DiffExact ==
    dPc = "done" =>
        /\ \A p \in DiffPaths :
            /\ Count(dOut, "NEW", p) =
                  (IF p \in DOMAIN dCur /\ p \notin DOMAIN dPrev THEN 1 ELSE 0)
            /\ Count(dOut, "MODIFIED", p) =
                  (IF p \in DOMAIN dCur /\ p \in DOMAIN dPrev
                      /\ Differs(dPrev[p], dCur[p]) THEN 1 ELSE 0)
            /\ Count(dOut, "DELETED", p) =
                  (IF p \in DOMAIN dPrev /\ p \notin DOMAIN dCur THEN 1 ELSE 0)
        /\ \A i \in 1..Len(dOut) :
              dOut[i] \in {"NEW", "MODIFIED", "DELETED"} \X DiffPaths
        /\ (dPrev = dCur => dOut = <<>>)

\* A diff that reported a modified and a deleted path.
C1_Witness ==
    /\ dPc = "done"
    /\ \E p, q \in DiffPaths :
          Count(dOut, "MODIFIED", p) = 1 /\ Count(dOut, "DELETED", q) = 1

\* F has no entry in any store, in memory or on disk.
Absent(F) ==
    /\ F \notin DOMAIN folder_intervals
    /\ F \notin DOMAIN last_check_times
    /\ F \notin DOMAIN snapshots
    /\ F \notin DOMAIN folder_statuses
    /\ F \notin active_operations
    /\ F \notin DOMAIN load_json(intervalsFile)
    /\ F \notin DOMAIN load_json(lastCheckFile)
    /\ F \notin DOMAIN load_json(snapshotsFile)

\* C2: once remove_folder(F) has returned and until F is added again, F has
\* no entry in the intervals, the last-check map, the snapshot store, the
\* status map and the active-operation set, in memory and in the files.
\* (A folder that is not monitored and is not being removed was removed, or
\* was never added and never had an entry.)
C2_Orig ==
    \A F \in Folders : (F \notin Watched /\ main.op # "remove") => Absent(F)

\* C3: every task that ends, by finishing or by raising, emits
\* operation_finished for its folder; and a folder with no task queued or
\* running and no operation_finished waiting for delivery is not in
\* active_operations.
C3_FinishedAlwaysFires ==
    /\ [](\A F \in Folders :
            (TasksOf(F) = 0 /\ pendingFinished[F] = 0)
                => F \notin active_operations)
    /\ [][\A F \in Folders :
            TasksOf(F)' < TasksOf(F)
                => pendingFinished'[F] = pendingFinished[F] + 1]_vars

\* A check of a monitored folder was submitted and no status was set: the
\* task raised; its operation_finished was delivered.
C3_Witness ==
    \E F \in Watched :
        /\ Get(last_check_times, F, 0) > 0
        /\ F \notin DOMAIN folder_statuses
        /\ TasksOf(F) = 0 /\ pendingFinished[F] = 0
        /\ F \notin active_operations

\* The step is one pass of the loop of the tick, for the folder F.
TickPass(F) ==
    /\ main.op = "tick" /\ main.todo # <<>> /\ Head(main.todo) = F
    /\ main'.op = "tick" /\ main'.todo = Tail(main.todo)

\* C4: a tick at time now submits a check of the monitored folder F if and
\* only if now - lastCheck(F) > interval(F), a missing lastCheck counting as
\* 0; it sets lastCheck(F) = now in the step that submits; a folder that is
\* not due keeps its lastCheck and gets no task.  The tick reads the clock
\* when it starts and passes over every monitored folder.
C4_TickDue ==
    [][/\ (main = Idle /\ main'.op = "tick")
            => /\ main'.now = now
               /\ {main'.todo[i] : i \in 1..Len(main'.todo)} = Watched
       /\ \A F \in Folders :
            TickPass(F) =>
                LET due == main.now - Get(last_check_times, F, 0)
                              > folder_intervals[F]
                IN  /\ due => /\ Len(queue') = Len(queue) + 1
                              /\ queue'[Len(queue')].kind = "check"
                              /\ queue'[Len(queue')].folder = F
                              /\ last_check_times'[F] = main.now
                    /\ ~due => /\ queue' = queue
                               /\ last_check_times' = last_check_times
                    /\ \A G \in Folders \ {F} :
                          Get(last_check_times', G, -1) = Get(last_check_times, G, -1)
      ]_vars

\* A tick has passed over both folders: it submitted a check of one and left
\* the other, which was checked exactly one interval ago or less, alone.
C4_Witness ==
    /\ main.op = "tick" /\ main.todo = <<>> /\ main.updated
    /\ \E F, G \in Watched :
          /\ last_check_times[F] = main.now
          /\ last_check_times[G] # main.now

\* The new tasks of a step that only appended to the queue.
Appended == SubSeq(queue', Len(queue) + 1, Len(queue'))

ManualChecksStamp ==
    /\ \A F \in Folders :
          CheckSingle(F) => /\ Appended = <<Task("check", F, Appended[1].first)>>
                            /\ last_check_times'[F] = now
    /\ RunCheckAll =>
          /\ Len(Appended) = Cardinality(Watched)
          /\ \A F \in Watched :
                /\ \E i \in 1..Len(Appended) :
                      Appended[i].kind = "check" /\ Appended[i].folder = F
                /\ last_check_times'[F] = now

SnapshotAllSubmits ==
    UpdateSnapshots =>
        /\ Len(Appended) = Cardinality(Watched)
        /\ \A F \in Watched :
              \E i \in 1..Len(Appended) :
                  Appended[i].kind = "snapshot" /\ Appended[i].folder = F

\* A manual trigger does not wait for the folder to be due or for its tasks
\* to end: whenever the main thread is idle it can run.  (Room is the
\* model's bound on submissions.)
ManualAlwaysPossible ==
    main = Idle =>
        /\ \A F \in Watched : Room(1) => ENABLED CheckSingle(F)
        /\ Room(Cardinality(Watched)) => ENABLED RunCheckAll
        /\ (Watched # {} /\ Room(Cardinality(Watched))) => ENABLED UpdateSnapshots

\* C5, as stated: checkNow(F), checkAll() and snapshotAll() submit their
\* tasks at once, whether or not the folder is due or has a task running,
\* and set lastCheck to the submission time for every folder they submit a
\* task for.
C5_Orig ==
    /\ []ManualAlwaysPossible
    /\ [][/\ ManualChecksStamp
          /\ SnapshotAllSubmits
          /\ UpdateSnapshots => \A F \in Watched : last_check_times'[F] = now
         ]_vars

\* C5, amended: checkNow(F) and checkAll() submit their check tasks at once,
\* whether or not the folder is due or has a task running, and set lastCheck
\* to the submission time for every folder they submit a check for;
\* snapshotAll() submits a snapshot task for every monitored folder at once
\* and leaves every lastCheck as it was.
C5_Amended ==
    /\ []ManualAlwaysPossible
    /\ [][/\ ManualChecksStamp
          /\ SnapshotAllSubmits
          /\ UpdateSnapshots => last_check_times' = last_check_times
         ]_vars

\* snapshotAll has submitted a snapshot of a folder whose first snapshot is
\* stored, while a check of the folder, stamped at its submission, is still
\* in flight.
C5_Witness ==
    \E F \in Watched :
        /\ F \in DOMAIN snapshots
        /\ \E i \in 1..Len(queue) : queue[i] = Task("snapshot", F, FALSE)
        /\ \E r \in DOMAIN running : r.kind = "check" /\ r.folder = F
        /\ last_check_times[F] = now

\* C6: under fair scheduling of the pool threads, a task of a folder G whose
\* walk returns ends, whatever tasks of other folders hang.
C6_Orig ==
    \A G \in Folders :
        (G \notin hung /\ TasksOf(G) > 0) ~> (G \in hung \/ TasksOf(G) = 0)

\* C7: the dispatch phase of a tick never waits for a task: inside a tick
\* the next pass of the loop, or its end, can always be taken, whatever is
\* queued, running or hung; and a tick starts whenever the timer fires on an
\* idle main thread.  A tick starts only when no handler is running, and
\* while it runs no other tick starts and no other handler changes the
\* stores of the main thread.
C7_TickNeverWaits ==
    /\ [](/\ main.op = "tick" => ENABLED (TickFolder \/ TickEnd)
          /\ (main = Idle /\ Room(DueCount(now))) => ENABLED TickBegin)
    /\ [][/\ (main'.op = "tick" /\ main.op # "tick") => main = Idle
          /\ (main.op = "tick" /\ main'.op = "tick")
                => /\ main'.now = main.now
                   /\ main'.todo \in {main.todo, SubSeq(main.todo, 2, Len(main.todo))}
          /\ main.op = "tick"
                => /\ folder_intervals' = folder_intervals
                   /\ key_order' = key_order
                   /\ intervalsFile' = intervalsFile
                   /\ \A F \in Folders :
                         Get(last_check_times', F, -1)
                             \in {Get(last_check_times, F, -1), main.now}
         ]_vars

\* A tick is in its loop, has submitted a check, and both pool threads are
\* stuck in the walk of a hung folder.
C7_Witness ==
    /\ main.op = "tick" /\ main.updated
    /\ BagCardinality([r \in {x \in DOMAIN running : x.pc = "scan"} |-> running[r]])
           = MaxWorkers

\* C8: while the files of F are as they were when F was added, the first
\* check of F submitted after the add ends with an empty change list (and so
\* with the status ok).
C8_Orig ==
    \A t \in DOMAIN running :
        (/\ t.kind = "check" /\ t.pc = "log" /\ t.first
         /\ t.folder \in Watched /\ t.folder \notin touched)
            => t.changes = <<>>

\* C9: when no handler is running and no snapshot task is between its store
\* and its save, each file holds what its store holds in memory; after
\* add_folder the last-check file holds 0 for the added folder.
C9_Orig ==
    main = Idle =>
        /\ load_json(intervalsFile) = folder_intervals
        /\ load_json(lastCheckFile) = last_check_times
        /\ ~LockHeld => load_json(snapshotsFile) = JsonSnapshots(snapshots)

\* An interval text as the format defines it: after trimming and
\* lower-casing, digits and units only, beginning with a digit, ending with
\* a unit, every unit following a digit.
WellFormedInterval(text) ==
    LET s == Lower(Strip(text))
    IN  /\ Len(s) > 0
        /\ \A i \in 1..Len(s) : IsDigit(s[i]) \/ IsUnit(s[i])
        /\ IsDigit(s[1])
        /\ IsUnit(s[Len(s)])
        /\ \A i \in 2..Len(s) : IsUnit(s[i]) => IsDigit(s[i - 1])

\* The texts the user may type that are no well-formed interval.
MalformedTexts == {text \in IntervalTexts : ~WellFormedInterval(text)}

InvalidAdd(p, text) ==
    \/ text \in MalformedTexts
    \/ ~IsDir(Resolve(p))
    \/ Resolve(p) \in Watched

\* C10: add_folder called with a malformed interval, with a path that is no
\* directory, or with a folder that is already monitored changes no store,
\* no file, and submits no task: no step of such a call changes any of them.
C10_InvalidAddChangesNothing ==
    \A p \in PathInputs, text \in IntervalTexts :
        InvalidAdd(p, text) =>
            ~ENABLED (/\ AddFolder(p, text)
                      /\ ~UNCHANGED <<storeVars, fileVars, poolVars>>)

\* The monitored folder has its snapshot in flight, the main thread is idle
\* and the pool could take a further task: an add of the same folder, of a
\* file, or with a malformed interval is answered here.
C10_Witness ==
    /\ main = Idle /\ Room(1)
    /\ "/a" \in Watched /\ TasksOf("/a") > 0
    /\ ENABLED AddFolder(" /a", <<"2", "s">>)
    /\ ENABLED AddFolder("/f", <<"1", "s">>)
    /\ ENABLED AddFolder("/a", <<"1", "s", "x">>)

-----------------------------------------------------------------------------
(* The log file, written by log() and by the detail lines of check_folder *)

\* Texts are sequences of pieces; a piece is a run of characters that no
\* other piece overlaps, so that "part in line" is the test for a contiguous
\* subsequence.
Contains(line, part) ==
    \E i \in 0..(Len(line) - Len(part)) : SubSeq(line, i + 1, i + Len(part)) = part

\* The folders that are logged, and the text of their paths.
LogFolders == {"/a", "/ab", "/Snapshot", "/b"}

PathText(F) ==
    CASE F = "/a" -> <<"/a">>
      [] F = "/ab" -> <<"/a", "b">>
      [] F = "/Snapshot" -> <<"/", "Snapshot">>
      [] F = "/b" -> <<"/b">>

\* The messages of _snapshot_worker and check_folder, after the timestamp
\* "[...]" that log() puts in front.
EntryText(msg, F) ==
    CASE msg = "Snapshot" -> <<"[", "Snapshot", "updated for">> \o PathText(F)
      [] msg = "Changes" -> <<"[", "Changes", "in">> \o PathText(F) \o <<":">>
      [] msg = "No changes" -> <<"[", "No changes", "in">> \o PathText(F)

\* f"  {line}\n" of check_folder for a new file of the folder
DetailText(F) == <<" ", "NEW:">> \o PathText(F) \o <<"/x">>

\* The operation_type that the caller passes with the message.
OperationType(msg) == IF msg = "Snapshot" THEN "Snapshot" ELSE "Check"

\* A line of the file.  text is what the file holds; folder, kind and id
\* are history: the folder and operation type the line was recorded for and
\* the number of its record.
Line(text, F, kind, id) == [text |-> text, folder |-> F, kind |-> kind, id |-> id]

RECURSIVE FilterLines(_, _, _, _)
\* The loop of log() over the lines read, skip_next being skip.
FilterLines(lines, folder, operation_type, skip) ==
    IF lines = <<>> THEN <<>>
    ELSE LET line == Head(lines)
             rest == Tail(lines)
         IN  IF line.text[1] # "["
             THEN IF skip THEN FilterLines(rest, folder, operation_type, skip)
                  ELSE <<line>> \o FilterLines(rest, folder, operation_type, skip)
             ELSE IF /\ Contains(line.text, PathText(folder))
                     /\ \E op \in {"Snapshot", "Changes", "No changes"} :
                           Contains(line.text, <<op>>)
                     /\ (IF Contains(line.text, <<"Snapshot">>)
                         THEN "Snapshot" ELSE "Check") = operation_type
                  THEN FilterLines(rest, folder, operation_type, TRUE)
                  ELSE <<line>> \o FilterLines(rest, folder, operation_type, FALSE)

IdleThread ==
    [pc |-> "idle", folder |-> "", msg |-> "", lines |-> <<>>, left |-> 0, id |-> 0]

\* A task on thread th reaches its call of log() for folder F.
LogBegin(th, F, msg) ==
    /\ logThreads[th].pc = "idle"
    /\ logCount < MaxLogRecords
    /\ logCount' = logCount + 1
    /\ logThreads' = [logThreads EXCEPT ![th] =
            [pc |-> "read", folder |-> F, msg |-> msg, lines |-> <<>>,
             left |-> IF msg = "Changes" THEN 1 ELSE 0, id |-> logCount']]
    /\ UNCHANGED <<storeVars, fileVars, poolVars, budget, main, envVars, diffVars,
                   intervalVars, logFile, faultVars>>

\* log(): open(LOG_FILE, "r") and readlines()
LogRead(th) ==
    /\ logThreads[th].pc = "read"
    /\ logThreads' = [logThreads EXCEPT ![th].pc = "write", ![th].lines = logFile]
    /\ UNCHANGED <<storeVars, fileVars, poolVars, budget, main, envVars, diffVars,
                   intervalVars, logFile, logCount, faultVars>>

\* log(): filter the lines read, append the entry, open(LOG_FILE, "w") and
\* writelines()
LogWrite(th) ==
    /\ logThreads[th].pc = "write"
    /\ LET t == logThreads[th]
           entry == Line(EntryText(t.msg, t.folder), t.folder,
                         OperationType(t.msg), t.id)
       IN  /\ logFile' = FilterLines(t.lines, t.folder, OperationType(t.msg), FALSE)
                            \o <<entry>>
           /\ logThreads' = [logThreads EXCEPT ![th] =
                   IF t.left > 0 THEN [t EXCEPT !.pc = "detail", !.lines = <<>>]
                   ELSE IdleThread]
    /\ UNCHANGED <<storeVars, fileVars, poolVars, budget, main, envVars, diffVars,
                   intervalVars, logCount, faultVars>>

\* check_folder: open(LOG_FILE, "a") and write one line of changed_files
LogDetail(th) ==
    /\ logThreads[th].pc = "detail"
    /\ LET t == logThreads[th]
       IN  /\ logFile' = Append(logFile,
                                 Line(DetailText(t.folder), t.folder, "Detail", t.id))
           /\ logThreads' = [logThreads EXCEPT ![th] =
                   IF t.left > 1 THEN [t EXCEPT !.left = @ - 1] ELSE IdleThread]
    /\ UNCHANGED <<storeVars, fileVars, poolVars, budget, main, envVars, diffVars,
                   intervalVars, logCount, faultVars>>

LogMessages == {"Snapshot", "Changes", "No changes"}

\* One thread records: the records are sequential.
LogInit ==
    /\ Constructed /\ EnvInit /\ DiffOff /\ IntervalOff /\ budget = 0
    /\ logFile = <<>>
    /\ logThreads = <<IdleThread>>
    /\ logCount = 0

LogNext ==
    \/ \E F \in LogFolders \ {"/b"}, msg \in LogMessages : LogBegin(1, F, msg)
    \/ LogRead(1)
    \/ LogWrite(1)
    \/ LogDetail(1)

LogSpec == LogInit /\ [][LogNext]_vars

\* Two threads of the pool record, the first for the tasks of folder /a, the
\* second for the tasks of folder /b.
RaceFolder == <<"/a", "/b">>

LogRaceInit ==
    /\ Constructed /\ EnvInit /\ DiffOff /\ IntervalOff /\ budget = 0
    /\ logFile = <<>>
    /\ logThreads = <<IdleThread, IdleThread>>
    /\ logCount = 0

LogRaceNext ==
    \E th \in 1..2 :
        \/ \E msg \in LogMessages : LogBegin(th, RaceFolder[th], msg)
        \/ LogRead(th)
        \/ LogWrite(th)
        \/ LogDetail(th)

LogRaceStep == \E th \in 1..2 : LogRead(th) \/ LogWrite(th) \/ LogDetail(th)

LogRaceSpec == LogRaceInit /\ [][LogRaceNext]_vars /\ WF_vars(LogRaceStep)

-----------------------------------------------------------------------------
(* C11 *)

\* The text without its leading and trailing blanks, in lower case.
Normal(text) ==
    LET solid == {i \in 1..Len(text) : text[i] # " "}
        lo == CHOOSE i \in solid : \A j \in solid : i <= j
        hi == CHOOSE i \in solid : \A j \in solid : j <= i
        small(c) == CASE c = "S" -> "s" [] c = "M" -> "m" [] c = "H" -> "h"
                      [] c = "D" -> "d" [] OTHER -> c
    IN  IF solid = {} THEN <<>> ELSE [k \in 1..(hi - lo + 1) |-> small(text[lo + k - 1])]

UnitSeconds == [s |-> 1, m |-> 60, h |-> 3600, d |-> 86400]

NumberOf ==
    [c \in {"0", "1", "2", "3", "4", "5", "6", "7", "8", "9"} |->
        CASE c = "0" -> 0 [] c = "1" -> 1 [] c = "2" -> 2 [] c = "3" -> 3
          [] c = "4" -> 4 [] c = "5" -> 5 [] c = "6" -> 6 [] c = "7" -> 7
          [] c = "8" -> 8 [] c = "9" -> 9]

UnitsAt(s) == {i \in 1..Len(s) : s[i] \in DOMAIN UnitSeconds}

\* The first position of the run of characters that ends before the unit at i.
RunStart(s, i) ==
    LET before == {j \in UnitsAt(s) : j < i}
    IN  IF before = {} THEN 1
        ELSE 1 + CHOOSE j \in before : \A k \in before : k <= j

\* s is one or more <integer><unit> pairs and nothing else.
IsPairs(s) ==
    /\ Len(s) > 0
    /\ Len(s) \in UnitsAt(s)
    /\ \A i \in UnitsAt(s) :
          /\ RunStart(s, i) < i
          /\ \A k \in RunStart(s, i)..(i - 1) : s[k] \in DOMAIN NumberOf

RECURSIVE Power10(_)
Power10(n) == IF n = 0 THEN 1 ELSE 10 * Power10(n - 1)

RECURSIVE SumOver(_, _)
SumOver(f, S) ==
    IF S = {} THEN 0
    ELSE LET x == CHOOSE y \in S : TRUE
         IN  f[x] + SumOver(f, S \ {x})

\* The integer written at positions a..b of s.
IntegerAt(s, a, b) ==
    SumOver([k \in a..b |-> NumberOf[s[k]] * Power10(b - k)], a..b)

\* The seconds of a text that is pairs: the sum of integer times unit.
PairsSeconds(s) ==
    SumOver([i \in UnitsAt(s) |->
                IntegerAt(s, RunStart(s, i), i - 1) * UnitSeconds[s[i]]],
            UnitsAt(s))

Expected(text) ==
    IF IsPairs(Normal(text)) THEN PairsSeconds(Normal(text)) ELSE Rejected

\* C11: an interval text is accepted only if, trimmed and in lower case, it
\* is one or more <integer><unit> pairs with the unit in s, m, h, d, and
\* then yields the sum of integer times unit seconds (1h30m is 5400, 2d is
\* 172800, 45m is 2700, 30s is 30); any other text is rejected by the add
\* path and by the update path alike, never valued on a part of it.
C11_IntervalParsing ==
    iPc = "done" =>
        /\ iAdd = Expected(iText)
        /\ iUpd = Expected(iText)
        /\ iText = <<"1", "h", "3", "0", "m">> => iAdd = 5400
        /\ iText = <<"2", "d">> => iAdd = 172800
        /\ iText = <<"4", "5", "m">> => iAdd = 2700
        /\ iText = <<"3", "0", "s">> => iAdd = 30
        /\ iText \in {<<"1", "x">>, <<"1", "s", "x">>, <<"1", "s", "x", "2", "m">>}
              => iAdd = Rejected /\ iUpd = Rejected

\* Both parsers have valued " 1H30m ", trimmed and lower-cased, as 5400.
C11_Witness ==
    /\ iPc = "done"
    /\ iText = <<" ", "1", "H", "3", "0", "m", " ">>
    /\ iAdd = 5400 /\ iUpd = 5400

-----------------------------------------------------------------------------
(* C12 *)

LogKinds == {"Snapshot", "Check"}

\* The positions of the entries recorded for folder F with kind K.
EntriesOf(file, F, K) ==
    {i \in 1..Len(file) : file[i].folder = F /\ file[i].kind = K}

\* The line was recorded for F with kind K: an entry, or a detail line of a
\* Check entry.
Owned(line, F, K) ==
    /\ line.folder = F
    /\ line.kind = K \/ (K = "Check" /\ line.kind = "Detail")

\* The lines that a record of kind K for F must leave, in their order.
Retained(file, F, K) == SelectSeq(file, LAMBDA line : ~Owned(line, F, K))

\* The step is the write of log() on thread th.
IsLogWrite(th) == logThreads[th].pc = "write" /\ logThreads'[th].pc # "write"

\* C12: with sequential records the log holds, for every folder, at most one
\* entry of kind Snapshot and at most one of kind Check; a record of kind K
\* for F removes the previous K entry of F with its detail lines and nothing
\* else, keeps the order of what it leaves, and puts the new entry last.
C12_Orig ==
    /\ [](\A F \in LogFolders, K \in LogKinds :
              Cardinality(EntriesOf(logFile, F, K)) <= 1)
    /\ [][IsLogWrite(1) =>
            LET t == logThreads[1]
                n == Len(logFile')
            IN  /\ n > 0
                /\ SubSeq(logFile', 1, n - 1)
                       = Retained(logFile, t.folder, OperationType(t.msg))
                /\ logFile'[n].id = t.id
         ]_vars

-----------------------------------------------------------------------------
(* C13, C17 *)

\* C13: for the intervals and for the snapshots, saving the store and
\* loading it again yields a store equal to the one saved, each file value
\* of a snapshot equal to the pair (mtime, size) of the scanner.
C13_Orig ==
    /\ load_json(save_json(folder_intervals)) = folder_intervals
    /\ snapshots = [F \in DOMAIN snapshots |->
                       [path \in DOMAIN snapshots[F] |->
                           Tuple(snapshots[F][path][2], snapshots[F][path][3])]]
          => load_json(save_json(JsonSnapshots(snapshots))) = snapshots

\* The two snapshots hold the same paths with the same mtime and size.
SameFiles(previous, current) ==
    /\ DOMAIN previous = DOMAIN current
    /\ \A path \in DOMAIN current :
          /\ previous[path][2] = current[path][2]
          /\ previous[path][3] = current[path][3]

\* C17: a check of F whose stored snapshot is the one the snapshot file
\* yields when loaded, and whose scan returns the same mtime and size for
\* the same paths, finds no change and sets the status ok.
C17_Orig ==
    [][\A t \in DOMAIN running :
          (/\ CheckDiff(t)
           /\ Has(snapshots, t.folder)
           /\ Has(load_json(snapshotsFile), t.folder)
           /\ snapshots[t.folder] = load_json(snapshotsFile)[t.folder]
           /\ SameFiles(snapshots[t.folder], t.cur))
              => /\ folder_statuses'[t.folder] = "ok"
                 /\ \A r \in DOMAIN running' : r.folder = t.folder => r.changes = <<>>
      ]_vars

-----------------------------------------------------------------------------
(* C14 *)

\* The stored snapshot of F after the step is a new one.
Replaced(F) ==
    /\ Has(snapshots', F)
    /\ ~Has(snapshots, F) \/ snapshots'[F] # snapshots[F]

\* C14: no step of a check task changes the snapshot store, in memory or
\* in its file, and a check whose scan differs from the stored snapshot
\* reports it each time; the stored snapshot of F is replaced only by the
\* store of a snapshot task of F, with the whole scan of that task (or, when
\* the program starts, by the snapshot loaded from the file); the file is
\* written only by the save of a snapshot task or of remove_folder, with
\* the store in memory.
C14_CheckKeepsSnapshot ==
    [][/\ \A t \in DOMAIN running :
            (t.kind = "check" /\ (CheckDiff(t) \/ TaskFinish(t) \/ TaskRaise(t)))
                => /\ snapshots' = snapshots
                   /\ snapshotsFile' = snapshotsFile
       /\ \A t \in DOMAIN running :
            (/\ CheckDiff(t)
             /\ Has(snapshots, t.folder)
             /\ ~SameFiles(snapshots[t.folder], t.cur))
                => folder_statuses'[t.folder] = "changed"
       /\ (queue # <<>> /\ Head(queue).kind = "check" /\ StartTask)
                => /\ snapshots' = snapshots
                   /\ snapshotsFile' = snapshotsFile
       /\ \A F \in Folders :
            Replaced(F) =>
                \/ \E t \in DOMAIN running :
                      /\ SnapSet(t) /\ t.kind = "snapshot" /\ t.folder = F
                      /\ snapshots'[F] = t.cur
                \/ Restart /\ snapshots'[F] = load_json(snapshotsFile)[F]
       /\ snapshotsFile' # snapshotsFile
                => /\ RemoveSave \/ \E t \in DOMAIN running : SnapSave(t)
                   /\ load_json(snapshotsFile') = JsonSnapshots(snapshots)
      ]_vars

\* The files of /a changed after its first snapshot; a check has found the
\* change and is about to end, and the store and the file still hold the
\* first snapshot.
C14_Witness ==
    /\ \E t \in DOMAIN running :
          /\ t.kind = "check" /\ t.folder = "/a" /\ t.pc = "log"
          /\ t.cur = Contents("/a")[2]
          /\ t.changes # <<>>
    /\ Has(snapshots, "/a")
    /\ snapshots["/a"] = Contents("/a")[1]
    /\ load_json(snapshotsFile) = JsonSnapshots(snapshots)
    /\ folder_statuses["/a"] = "changed"

-----------------------------------------------------------------------------
(* C15 *)

\* A snapshot task of F is queued or running.
SnapshotInFlight(F) ==
    \/ \E i \in 1..Len(queue) : queue[i].kind = "snapshot" /\ queue[i].folder = F
    \/ \E r \in DOMAIN running : r.kind = "snapshot" /\ r.folder = F

\* C15: with tasks of two folders in the pool at the same time, the snapshot
\* store is what the tasks run one after the other leave: every stored
\* snapshot is the whole scan of its folder, a folder whose snapshot tasks
\* have all ended has its entry, and, no snapshot task being between its
\* store and its save, the file holds every entry of the store.
C15_TwoFoldersIndependent ==
    /\ \A F \in DOMAIN snapshots : snapshots[F] = get_metadata(F)
    /\ \A F \in Watched : ~SnapshotInFlight(F) => Has(snapshots, F)
    /\ ~LockHeld => load_json(snapshotsFile) = JsonSnapshots(snapshots)

\* The snapshot tasks of /a and /b and a check have all ended: both
\* snapshots are stored and saved.
C15_Witness ==
    /\ Watched = {"/a", "/b"}
    /\ InFlight = 0 /\ budget = 0
    /\ Has(snapshots, "/a") /\ Has(snapshots, "/b")
    /\ DOMAIN load_json(snapshotsFile) = {"/a", "/b"}
    /\ DOMAIN folder_statuses # {}

-----------------------------------------------------------------------------
(* C16 *)

\* The entries of folder G in the stores of the main thread.
EntriesIn(G, intervals, last, snaps, statuses, active) ==
    <<Get(intervals, G, "none"), Get(last, G, -1), Get(snaps, G, "none"),
      Get(statuses, G, "none"), G \in active>>

\* C16: remove_folder(P) for a path P that is not monitored raises no
\* error, in its pops and in its saves, and leaves the interval, the
\* lastCheck, the snapshot, the status and the active mark of every
\* monitored folder, and the set of the monitored folders, as they were.
C16_RemoveUnknownNoOp ==
    /\ [](\A P \in Folders \ Watched :
              /\ main = Idle => ENABLED RemoveBegin(P)
              /\ (main.op = "remove" /\ main.folder = P) => ENABLED RemoveSave)
    /\ [][\A P \in Folders \ Watched :
              (RemoveBegin(P) \/ (main.op = "remove" /\ main.folder = P /\ RemoveSave))
                  => /\ folder_intervals' = folder_intervals
                     /\ key_order' = key_order
                     /\ \A G \in Watched :
                           EntriesIn(G, folder_intervals', last_check_times',
                                     snapshots', folder_statuses', active_operations')
                           = EntriesIn(G, folder_intervals, last_check_times,
                                       snapshots, folder_statuses, active_operations)
         ]_vars

\* remove_folder runs for /b, which is not monitored, while /a is monitored
\* with a snapshot, a status, a lastCheck and a task in flight.
C16_Witness ==
    /\ main.op = "remove" /\ main.folder = "/b"
    /\ "/a" \in Watched /\ "/a" \in active_operations
    /\ Has(snapshots, "/a") /\ Has(folder_statuses, "/a")
    /\ last_check_times["/a"] > 0

-----------------------------------------------------------------------------
(* C18, C19 *)

\* C18: a monitored folder with a check or snapshot task submitted and not
\* yet ended is in active_operations, also when several tasks of the folder
\* are in flight and one of them has ended.  (active_operations is a set: a
\* folder is in it at most once.)
C18_Orig ==
    \A F \in Watched : TasksOf(F) > 0 => F \in active_operations

\* The step ends the check task t, by its end or by an error.
CheckEnds(t) == t.kind = "check" /\ (TaskFinish(t) \/ TaskRaise(t))

\* C19: when a check task of F ends, by success or by an error, the status
\* of F has been set by that task: changed if its change list is not empty,
\* ok if it is empty; and the step in which a check sets the status sets it
\* from the change list of that check.
C19_Orig ==
    [][/\ \A t \in DOMAIN running :
            (CheckEnds(t) /\ t.folder \in Watched)
                => /\ Has(folder_statuses, t.folder)
                   /\ t.pc = "log"
                   /\ folder_statuses[t.folder] = "changed" <=> t.changes # <<>>
       /\ \A t \in DOMAIN running :
            CheckDiff(t) =>
                \E r \in DOMAIN running' :
                    /\ r.folder = t.folder /\ r.pc = "log"
                    /\ folder_statuses'[t.folder] = "changed" <=> r.changes # <<>>
                    /\ folder_statuses'[t.folder] = "ok" <=> r.changes = <<>>
      ]_vars

-----------------------------------------------------------------------------
(* C20 *)

\* No thread is inside a record.
AllRecorded == \A th \in DOMAIN logThreads : logThreads[th].pc = "idle"

\* Every detail line follows the entry of its own record, or a detail line
\* of it, and every "Changes" entry is followed by a detail line of its own.
DetailsAttached(file) ==
    \A i \in 1..Len(file) :
        /\ file[i].kind = "Detail" => (i > 1 /\ file[i - 1].id = file[i].id)
        /\ (file[i].kind = "Check" /\ file[i].text[2] = "Changes")
              => /\ i < Len(file)
                 /\ file[i + 1].kind = "Detail"
                 /\ file[i + 1].id = file[i].id

\* C20: with the tasks of distinct folders recording at the same time, no
\* write of an entry loses a line of another record (it leaves every line
\* that is in the file, but the previous entry of its own folder and kind,
\* and puts its entry last), and once all have recorded each Check entry is
\* followed by its own detail lines, with no detail line after the entry of
\* another record.
C20_Orig ==
    /\ [][\A th \in DOMAIN logThreads :
              IsLogWrite(th) =>
                  LET t == logThreads[th]
                      n == Len(logFile')
                  IN  /\ n > 0
                      /\ SubSeq(logFile', 1, n - 1)
                             = Retained(logFile, t.folder, OperationType(t.msg))
                      /\ logFile'[n].id = t.id
         ]_vars
    /\ [](AllRecorded => DetailsAttached(logFile))

-----------------------------------------------------------------------------
(* C21, C22 *)

\* C21: between a mutation of a store and the save that follows it no other
\* operation mutates or saves that store.  While a snapshot task is between
\* its store and its save, the snapshots change in no step and their file
\* is written by that task only; while remove_folder is between its pops
\* and its saves, no store that it saves changes and no file that it saves
\* is written but by its saves; while a tick is between its first stamp and
\* its save, the lastCheck map is changed by the tick only and its file is
\* written by the tick only.
C21_Orig ==
    [][/\ LockHeld =>
            /\ snapshots' = snapshots
            /\ snapshotsFile' # snapshotsFile => \E t \in DOMAIN running : SnapSave(t)
       /\ main.op = "remove" =>
            /\ snapshots' = snapshots
            /\ folder_intervals' = folder_intervals
            /\ last_check_times' = last_check_times
            /\ fileVars' # fileVars => RemoveSave
       /\ main.op = "tick" =>
            /\ last_check_times' # last_check_times => TickFolder
            /\ lastCheckFile' # lastCheckFile => TickEnd
      ]_vars

\* C22: for every text that add_folder or update_folder_interval accepts,
\* the interval that is stored is an integer of at least 1 second.
C22_Orig ==
    iPc = "done" =>
        /\ iAdd # Rejected => iAdd >= 1
        /\ iUpd # Rejected => iUpd >= 1

-----------------------------------------------------------------------------
(* C23 *)

\* A pool thread takes a step of a snapshot task of F: it starts it, stores
\* its scan, saves the store or ends it.
SnapshotTaskStep(F) ==
    \/ /\ queue # <<>>
       /\ Head(queue).kind = "snapshot" /\ Head(queue).folder = F
       /\ StartTask
    \/ \E t \in DOMAIN running :
          /\ t.kind = "snapshot" /\ t.folder = F
          /\ SnapSet(t) \/ SnapSave(t) \/ TaskFinish(t)

-----------------------------------------------------------------------------
(* Faults of the disk *)

\* Writing the state file f begins to fail, the other files being writable.
DiskFault(f, mode) ==
    /\ \A g \in StoreFiles : disk[g] = "ok"
    /\ disk' = [disk EXCEPT ![f] = mode]
    /\ UNCHANGED <<storeVars, fileVars, poolVars, budget, main, envVars, diffVars,
                   intervalVars, logVars, statFails>>

\* The state file f can be written again.
DiskRepair(f) ==
    /\ disk[f] # "ok"
    /\ disk' = [disk EXCEPT ![f] = "ok"]
    /\ UNCHANGED <<storeVars, fileVars, poolVars, budget, main, envVars, diffVars,
                   intervalVars, logVars, statFails>>

\* os.stat of the file p begins to raise: the file is unreadable, or it goes
\* away between the listing and the stat.
StatFault(p) ==
    /\ p \notin statFails
    /\ statFails' = statFails \cup {p}
    /\ UNCHANGED <<storeVars, fileVars, poolVars, budget, main, envVars, diffVars,
                   intervalVars, logVars, disk>>

\* os.stat of the file p works again.
StatRepair(p) ==
    /\ p \in statFails
    /\ statFails' = statFails \ {p}
    /\ UNCHANGED <<storeVars, fileVars, poolVars, budget, main, envVars, diffVars,
                   intervalVars, logVars, disk>>

\* One watched folder, the handlers and tasks that save a store, and a
\* state directory whose files can fail to be written.
SaveNext ==
    \/ AddFolder("/a", <<"1", "s">>)
    \/ UpdateInterval("/a", <<"2", "s">>)
    \/ CheckSingle("/a")
    \/ RemoveBegin("/a")
    \/ RemoveSave
    \/ DeliverFinished("/a")
    \/ StartTask
    \/ \E t \in DOMAIN running : CheckDiff(t)
    \/ \E t \in DOMAIN running : SnapSet(t)
    \/ \E t \in DOMAIN running : SnapSave(t)
    \/ \E t \in DOMAIN running : TaskFinish(t)
    \/ \E f \in StoreFiles, mode \in FaultModes : DiskFault(f, mode)
    \/ \E f \in StoreFiles : DiskRepair(f)

SaveSpec == Init /\ [][SaveNext]_vars

\* One watched folder with two files, the operations that scan it, and
\* files whose stat can fail.
ScanNext ==
    \/ AddFolder("/a", <<"1", "s">>)
    \/ CheckSingle("/a")
    \/ UpdateSnapshots
    \/ DeliverFinished("/a")
    \/ StartTask
    \/ \E t \in DOMAIN running : CheckDiff(t)
    \/ \E t \in DOMAIN running : SnapSet(t)
    \/ \E t \in DOMAIN running : SnapSave(t)
    \/ \E t \in DOMAIN running : TaskFinish(t)
    \/ Touch("/a")
    \/ \E p \in FilesOf("/a") : StatFault(p)
    \/ \E p \in FilesOf("/a") : StatRepair(p)

ScanSpec == Init /\ [][ScanNext]_vars

-----------------------------------------------------------------------------
(* C24 *)

\* What a save of memory to the file named path leaves behind: the whole of
\* memory when the file can be written, and else the file as it was or
\* emptied.
SaveOutcome(path, before, after, memory) ==
    IF disk[path] = "ok"
    THEN after.exists /\ load_json(after) = memory
    ELSE after \in {before, Truncated}

-----------------------------------------------------------------------------
(* C25 *)

\* The files of F whose stat succeeds, with their values.
Statable(F) == [p \in FilesOf(F) \ statFails |-> Contents(F)[fs[F]][p]]

====
